---- MODULE Spec2Model ----
(***************************************************************************)
(* Transcript rubric scorer (src/evaluate_intro.py, src/app.py).           *)
(*                                                                         *)
(* A transcript is a sequence of one-character strings, so that the        *)
(* regular-expression searches, str.find, str.split and str.count of the   *)
(* source are computed character by character.  Floating-point ratios      *)
(* (wpm, grammar quality, type-token ratio, filler rate) are exact         *)
(* rationals <<num, den>> with den > 0 and are compared with the source's  *)
(* decimal thresholds by cross-multiplication.                             *)
(***************************************************************************)
EXTENDS Integers, Sequences, FiniteSets, TLC

VARIABLES
    transcript,   \* the text handed to the engine (app.py:9)
    duration,     \* the duration handed to the engine (app.py:10,13)
    result        \* the last call made and what it returned

vars == <<transcript, duration, result>>

(***************************************************************************)
(* Characters                                                              *)
(***************************************************************************)
UpperLetters == <<"A","B","C","D","E","F","G","H","I","J","K","L","M",
                  "N","O","P","Q","R","S","T","U","V","W","X","Y","Z">>
LowerLetters == <<"a","b","c","d","e","f","g","h","i","j","k","l","m",
                  "n","o","p","q","r","s","t","u","v","w","x","y","z">>
Digits == {"0","1","2","3","4","5","6","7","8","9"}

Range(s) == {s[i] : i \in DOMAIN s}

UpperSet == Range(UpperLetters)
LowerSet == Range(LowerLetters)
SpaceChars == {" ", "\t", "\n", "\r"}
WordChars == UpperSet \cup LowerSet \cup Digits \cup {"_"}
TokenChars == UpperSet \cup LowerSet \cup {"'"}

\* str.lower() on one character
LowerTable == [c \in UpperSet |-> LowerLetters[CHOOSE i \in 1..26 : UpperLetters[i] = c]]
lower_char(c) == IF c \in UpperSet THEN LowerTable[c] ELSE c

\* str.lower()
lower(t) == SubSeq([i \in 1..Len(t) |-> lower_char(t[i])], 1, Len(t))

\* the character classes of the re module: \s, \d, \w and [A-Za-z']
IsSpace(c) == c \in SpaceChars
IsDigit(c) == c \in Digits
IsWordChar(c) == c \in WordChars
IsTokenChar(c) == c \in TokenChars

\* p occurs in t at 0-based offset i
HasAt(t, i, p) ==
    /\ i >= 0
    /\ i + Len(p) <= Len(t)
    /\ p # <<>> => t[i + 1] = p[1]
    /\ SubSeq(t, i + 1, i + Len(p)) = p

\* \b at 0-based offset i: exactly one of t[i-1], t[i] is a word character
WordBoundary(t, i) ==
    LET before == i >= 1 /\ i <= Len(t) /\ IsWordChar(t[i])
        after  == i >= 0 /\ i < Len(t) /\ IsWordChar(t[i + 1])
    IN  before # after

\* offset of the first character at or after offset i that is not whitespace
RECURSIVE SkipSpaces(_, _)
SkipSpaces(t, i) ==
    IF i < Len(t) /\ IsSpace(t[i + 1]) THEN SkipSpaces(t, i + 1) ELSE i

\* offset of the first character at or after offset i that is not a word character
RECURSIVE SkipWord(_, _)
SkipWord(t, i) ==
    IF i < Len(t) /\ IsWordChar(t[i + 1]) THEN SkipWord(t, i + 1) ELSE i

\* str.strip()
RECURSIVE strip(_)
strip(t) ==
    IF t = <<>> THEN t
    ELSE IF IsSpace(t[1]) THEN strip(Tail(t))
    ELSE IF IsSpace(t[Len(t)]) THEN strip(SubSeq(t, 1, Len(t) - 1))
    ELSE t

\* the least element of a non-empty set of integers
Least(S) == CHOOSE x \in S : \A y \in S : x <= y

\* the lowest offset >= i at which p occurs, else -1
FindFrom(t, p, i) ==
    LET hits == {j \in i..(Len(t) - Len(p)) : HasAt(t, j, p)}
    IN  IF hits = {} THEN -1 ELSE Least(hits)

\* str.find(p)
find(t, p) == FindFrom(t, p, 0)

\* str.count(p): the number of non-overlapping occurrences of p
RECURSIVE CountFrom(_, _, _)
CountFrom(t, p, i) ==
    LET j == FindFrom(t, p, i)
    IN  IF j < 0 THEN 0 ELSE 1 + CountFrom(t, p, j + Len(p))

count(t, p) == CountFrom(t, p, 0)

\* min() and max() of a non-empty list of integers
MinOf(s) == CHOOSE x \in Range(s) : \A y \in Range(s) : x <= y
MaxOf(s) == CHOOSE x \in Range(s) : \A y \in Range(s) : x >= y

(***************************************************************************)
(* Regular expressions of the source.  A pattern \b(a|b|...)\b over        *)
(* literal alternatives is Words({a, b, ...}); the two patterns with       *)
(* character classes have their own matchers.                              *)
(***************************************************************************)
Words(alts) == [re |-> "words", alts |-> alts]
AgeRe == [re |-> "age", alts |-> {}]
ClassRe == [re |-> "class", alts |-> {}]

\* \d{1,2}\s*years?\s*old matches at offset i; bounded: with \b on both sides
AgeMatchAt(t, i, bounded) ==
    \E nd \in 1..2 :
        /\ i + nd <= Len(t)
        /\ \A k \in 1..nd : IsDigit(t[i + k])
        /\ LET j == SkipSpaces(t, i + nd)
           IN  /\ HasAt(t, j, <<"y","e","a","r">>)
               /\ \E s \in 0..1 :
                    /\ s = 1 => HasAt(t, j + 4, <<"s">>)
                    /\ LET m == SkipSpaces(t, j + 4 + s)
                       IN  /\ HasAt(t, m, <<"o","l","d">>)
                           /\ bounded => WordBoundary(t, m + 3)
        /\ bounded => WordBoundary(t, i)

\* \bclass\s+\w+\b matches at offset i (the closing \b holds at the end of \w+)
ClassMatchAt(t, i) ==
    /\ WordBoundary(t, i)
    /\ HasAt(t, i, <<"c","l","a","s","s">>)
    /\ i + 5 < Len(t)
    /\ IsSpace(t[i + 6])
    /\ LET j == SkipSpaces(t, i + 5)
       IN  j < Len(t) /\ IsWordChar(t[j + 1])

\* \b(alt|...)\b matches at offset i
WordsMatchAt(t, i, alts) ==
    /\ WordBoundary(t, i)
    /\ \E p \in alts : HasAt(t, i, p) /\ WordBoundary(t, i + Len(p))

\* the offsets at which a word starts: every pattern of the tables begins
\* with \b and a word character, so a match starts at one of them
WordStarts(t) == {i \in 0..(Len(t) - 1) : IsWordChar(t[i + 1]) /\ WordBoundary(t, i)}

\* re.search(pat, t) finds a match, starts being WordStarts(t)
re_search(pat, t, starts) ==
    \E i \in starts :
        CASE pat.re = "words" -> WordsMatchAt(t, i, pat.alts)
          [] pat.re = "age"   -> AgeMatchAt(t, i, TRUE)
          [] pat.re = "class" -> ClassMatchAt(t, i)

\* any(re.search(p, t) for p in pats)
any_search(pats, t, starts) == \E k \in DOMAIN pats : re_search(pats[k], t, starts)

SALUTATION_PATTERNS ==
    [excellent |-> << Words({<<"i"," ","a","m"," ","e","x","c","i","t","e","d">>, <<"i"," ","a","m"," ","t","h","r","i","l","l","e","d">>, <<"f","e","e","l","i","n","g"," ","g","r","e","a","t">>}) >>,
     good      |-> << Words({<<"g","o","o","d"," ","m","o","r","n","i","n","g">>, <<"g","o","o","d"," ","a","f","t","e","r","n","o","o","n">>, <<"g","o","o","d"," ","e","v","e","n","i","n","g">>, <<"g","o","o","d"," ","d","a","y">>}),
                      Words({<<"h","e","l","l","o"," ","e","v","e","r","y","o","n","e">>}) >>,
     normal    |-> << Words({<<"h","i">>}), Words({<<"h","e","l","l","o">>}) >>]

MUST_HAVE_KEYS ==
    [name         |-> << Words({<<"m","y"," ","n","a","m","e"," ","i","s">>}), Words({<<"m","y","s","e","l","f">>}), Words({<<"i"," ","a","m">>}) >>,
     age          |-> << AgeRe >>,
     school_class |-> << ClassRe, Words({<<"s","c","h","o","o","l">>}) >>,
     family       |-> << Words({<<"f","a","m","i","l","y">>}), Words({<<"f","a","t","h","e","r">>}), Words({<<"m","o","t","h","e","r">>}),
                         Words({<<"s","i","s","t","e","r">>}), Words({<<"b","r","o","t","h","e","r">>}) >>,
     hobbies      |-> << Words({<<"h","o","b","b","y">>, <<"h","o","b","b","i","e","s">>, <<"l","i","k","e"," ","t","o">>, <<"e","n","j","o","y">>,
                                <<"f","a","v","o","r","i","t","e">>, <<"f","a","v","o","u","r","i","t","e">>}) >>]

GOOD_TO_HAVE_KEYS ==
    [about_family           |-> << Words({<<"k","i","n","d","-","h","e","a","r","t","e","d">>, <<"k","i","n","d"," ","h","e","a","r","t","e","d">>, <<"k","i","n","d","h","e","a","r","t","e","d">>,
                                          <<"s","o","f","t","-","s","p","o","k","e","n">>, <<"s","o","f","t"," ","s","p","o","k","e","n">>, <<"s","o","f","t","s","p","o","k","e","n">>}) >>,
     origin_location        |-> << Words({<<"i"," ","a","m"," ","f","r","o","m">>}), Words({<<"w","e"," ","a","r","e"," ","f","r","o","m">>}),
                                   Words({<<"p","a","r","e","n","t","s"," ","a","r","e"," ","f","r","o","m">>}) >>,
     ambition_goal          |-> << Words({<<"a","m","b","i","t","i","o","n">>, <<"g","o","a","l">>, <<"d","r","e","a","m">>, <<"a","s","p","i","r","a","t","i","o","n">>}) >>,
     interesting_unique     |-> << Words({<<"f","u","n"," ","f","a","c","t">>, <<"u","n","i","q","u","e">>, <<"i","n","t","e","r","e","s","t","i","n","g">>}) >>,
     strengths_achievements |-> << Words({<<"s","t","r","e","n","g","t","h">>, <<"a","c","h","i","e","v","e","m","e","n","t">>, <<"a","w","a","r","d">>,
                                          <<"r","a","n","k","e","d">>, <<"w","o","n">>}) >>]

FILLER_WORDS ==
    {<<"u","m">>, <<"u","h">>, <<"l","i","k","e">>, <<"y","o","u"," ","k","n","o","w">>, <<"s","o">>, <<"a","c","t","u","a","l","l","y">>, <<"b","a","s","i","c","a","l","l","y">>, <<"r","i","g","h","t">>,
     <<"i"," ","m","e","a","n">>, <<"w","e","l","l">>, <<"k","i","n","d","a">>, <<"s","o","r","t"," ","o","f">>, <<"o","k","a","y">>, <<"h","m","m">>, <<"a","h">>}

(***************************************************************************)
(* Text normalisation                                                      *)
(***************************************************************************)
\* offset of the first character at or after offset i that is (inTok) or is
\* not (~inTok) a letter or an apostrophe
RECURSIVE SkipTok(_, _, _)
SkipTok(t, i, inTok) ==
    IF i < Len(t) /\ (IsTokenChar(t[i + 1]) <=> inTok) THEN SkipTok(t, i + 1, inTok) ELSE i

\* the maximal runs of letters and apostrophes of t from offset i on, in order
RECURSIVE TokensFrom(_, _)
TokensFrom(t, i) ==
    LET j == SkipTok(t, i, FALSE)
        e == SkipTok(t, j, TRUE)
    IN  IF j >= Len(t) THEN <<>> ELSE <<SubSeq(t, j + 1, e)>> \o TokensFrom(t, e)

\* re.findall(r"[A-Za-z']+", text.lower())
word_list(text) == TokensFrom(lower(text), 0)

\* len(transcript.split()): the number of maximal runs of non-whitespace characters
split_count(t) ==
    Cardinality({i \in 1..Len(t) :
        /\ ~IsSpace(t[i])
        /\ (i = 1 \/ IsSpace(t[i - 1]))})

\* index of the last character at or before index i that is not whitespace, else 0
RECURSIVE SkipSpacesBack(_, _)
SkipSpacesBack(t, i) ==
    IF i >= 1 /\ IsSpace(t[i]) THEN SkipSpacesBack(t, i - 1) ELSE i

\* len([s for s in transcript.split('.') if s.strip()]): the pieces between
\* dots that hold a character other than whitespace (counted at the first one)
dot_sentence_count(t) ==
    Cardinality({i \in 1..Len(t) :
        /\ ~IsSpace(t[i]) /\ t[i] # "."
        /\ LET j == SkipSpacesBack(t, i - 1) IN j = 0 \/ t[j] = "."})

\* " ".join(wl)
RECURSIVE join(_)
join(wl) ==
    IF wl = <<>> THEN <<>>
    ELSE IF Len(wl) = 1 THEN wl[1]
    ELSE wl[1] \o <<" ">> \o join(Tail(wl))

(***************************************************************************)
(* Numbers.  A ratio is <<num, den>> with den > 0; a value rounded to two  *)
(* decimals is an integer number of hundredths.                            *)
(***************************************************************************)
Whole(n) == <<n, 1>>
Dec(h) == <<h, 100>>          \* the decimal literal h/100, e.g. 0.89 is Dec(89)
RLe(a, b) == a[1] * b[2] <= b[1] * a[2]
RLt(a, b) == a[1] * b[2] < b[1] * a[2]
REq(a, b) == a[1] * b[2] = b[1] * a[2]

\* round(n/d, 2) in hundredths, ties to the even hundredth; d # 0
Round2(n, d) ==
    LET nn  == IF d < 0 THEN -n ELSE n
        dd  == IF d < 0 THEN -d ELSE d
        f   == (100 * nn) \div dd
        rem == 100 * nn - f * dd
    IN  IF 2 * rem < dd THEN f
        ELSE IF 2 * rem > dd THEN f + 1
        ELSE IF f % 2 = 0 THEN f ELSE f + 1

\* the duration argument: None, or a number of seconds
NoDuration == [given |-> FALSE, sec |-> 0]
Seconds(n) == [given |-> TRUE, sec |-> n]

Returned(v) == [kind |-> "value", value |-> v]
ReturnedNone == [kind |-> "None", value |-> <<>>]
Raised == [kind |-> "raise", value |-> <<>>]

(***************************************************************************)
(* Pattern evaluators                                                      *)
(***************************************************************************)
\* compute_salutation_score with the good tier tested before the excellent one
compute_salutation_score_good_first(text) ==
    LET t == strip(lower(text))
        starts == WordStarts(t)
    IN  IF any_search(SALUTATION_PATTERNS.good, t, starts)
        THEN Returned([score |-> 4, feedback |-> "Good salutation detected."])
        ELSE IF any_search(SALUTATION_PATTERNS.excellent, t, starts)
        THEN Returned([score |-> 5, feedback |-> "Excellent salutation detected."])
        ELSE IF any_search(SALUTATION_PATTERNS.normal, t, starts)
        THEN Returned([score |-> 2, feedback |-> "Normal salutation detected."])
        ELSE Returned([score |-> 0, feedback |-> "No salutation found."])

compute_salutation_score(text) ==
    LET t == strip(lower(text))
        starts == WordStarts(t)
    IN  IF any_search(SALUTATION_PATTERNS.excellent, t, starts)
        THEN Returned([score |-> 5, feedback |-> "Excellent salutation detected."])
        ELSE IF any_search(SALUTATION_PATTERNS.good, t, starts)
        THEN Returned([score |-> 4, feedback |-> "Good salutation detected."])
        ELSE IF any_search(SALUTATION_PATTERNS.normal, t, starts)
        THEN Returned([score |-> 2, feedback |-> "Normal salutation detected."])
        ELSE Returned([score |-> 0, feedback |-> "No salutation found."])

\* the running total of a loop that adds pts for every key whose flag is set
RECURSIVE AddPoints(_, _, _)
AddPoints(flags, keys, pts) ==
    IF keys = {} THEN 0
    ELSE LET k == CHOOSE x \in keys : TRUE
         IN  (IF flags[k] THEN pts ELSE 0) + AddPoints(flags, keys \ {k}, pts)

\* compute_keyword_presence with the points of the two key sets exchanged
compute_keyword_presence_swapped_points(text) ==
    LET t == lower(text)
        starts == WordStarts(t)
        must_flags == [key \in DOMAIN MUST_HAVE_KEYS |-> any_search(MUST_HAVE_KEYS[key], t, starts)]
        good_flags == [key \in DOMAIN GOOD_TO_HAVE_KEYS |-> any_search(GOOD_TO_HAVE_KEYS[key], t, starts)]
        must_have_score == AddPoints(must_flags, DOMAIN MUST_HAVE_KEYS, 2)
        good_have_score == AddPoints(good_flags, DOMAIN GOOD_TO_HAVE_KEYS, 4)
    IN  Returned([score |-> must_have_score + good_have_score,
                  must_flags |-> must_flags, good_flags |-> good_flags])

compute_keyword_presence(text) ==
    LET t == lower(text)
        starts == WordStarts(t)
        must_flags == [key \in DOMAIN MUST_HAVE_KEYS |-> any_search(MUST_HAVE_KEYS[key], t, starts)]
        good_flags == [key \in DOMAIN GOOD_TO_HAVE_KEYS |-> any_search(GOOD_TO_HAVE_KEYS[key], t, starts)]
        must_have_score == AddPoints(must_flags, DOMAIN MUST_HAVE_KEYS, 4)
        good_have_score == AddPoints(good_flags, DOMAIN GOOD_TO_HAVE_KEYS, 2)
    IN  Returned([score |-> must_have_score + good_have_score,
                  must_flags |-> must_flags, good_flags |-> good_flags])

\* re.search(r"\d{1,2}\s*years?\s*old", t): the start of the leftmost match, else -1
AgeStart(t) ==
    LET hits == {i \in 0..(Len(t) - 1) : AgeMatchAt(t, i, FALSE)}
    IN  IF hits = {} THEN -1 ELSE Least(hits)

compute_order_flow(text) ==
    LET t == lower(text)
        idx_sal == MinOf(<<find(t, <<"h","e","l","l","o"," ","e","v","e","r","y","o","n","e">>), find(t, <<"h","e","l","l","o"," ">>), find(t, <<"h","i"," ">>)>>)
        idx_name == MinOf(<<find(t, <<"m","y"," ","n","a","m","e"," ","i","s">>), find(t, <<"m","y","s","e","l","f"," ">>), find(t, <<"i"," ","a","m"," ">>)>>)
        idx_school == find(t, <<"s","c","h","o","o","l">>)
        idx_class == find(t, <<"c","l","a","s","s">>)
        idx_age == AgeStart(t)
        idx_place == MaxOf(<<find(t, <<"i"," ","a","m"," ","f","r","o","m">>), find(t, <<"p","a","r","e","n","t","s"," ","a","r","e"," ","f","r","o","m">>)>>)
        idx_additional == MaxOf(<<find(t, <<"f","u","n"," ","f","a","c","t">>), find(t, <<"u","n","i","q","u","e">>),
                                  find(t, <<"i","n","t","e","r","e","s","t","i","n","g">>), find(t, <<"e","n","j","o","y">>),
                                  find(t, <<"f","a","v","o","r","i","t","e">>), find(t, <<"f","a","v","o","u","r","i","t","e">>)>>)
        idx_close == find(t, <<"t","h","a","n","k"," ","y","o","u">>)
        basic_idxs == SelectSeq(<<idx_name, idx_age, idx_school, idx_class, idx_place>>,
                                LAMBDA i : i >= 0)
    IN  IF idx_sal >= 0 /\ basic_idxs # <<>> /\ idx_additional >= 0 /\ idx_close >= 0
        THEN LET valid == /\ idx_sal <= MinOf(basic_idxs)
                          /\ MinOf(basic_idxs) <= idx_additional
                          /\ idx_additional <= idx_close
             IN  Returned([score |-> IF valid THEN 5 ELSE 0,
                           feedback |-> IF valid THEN "Order followed." ELSE "Order not followed."])
        ELSE Returned([score |-> 0, feedback |-> "Order not followed."])

(***************************************************************************)
(* Metric evaluators                                                       *)
(***************************************************************************)
compute_speech_rate(words, duration_sec) ==
    IF ~duration_sec.given \/ duration_sec.sec <= 0
    THEN Returned([score |-> 10, wpm |-> Whole(120),
                   feedback |-> "Duration not provided; assumed ideal speech rate."])
    ELSE LET wpm == <<words * 60, duration_sec.sec>>
         IN  IF RLt(Whole(161), wpm)
             THEN Returned([score |-> 2, wpm |-> wpm, feedback |-> "Too fast."])
             ELSE IF RLe(Whole(141), wpm) /\ RLe(wpm, Whole(160))
             THEN Returned([score |-> 6, wpm |-> wpm, feedback |-> "Fast."])
             ELSE IF RLe(Whole(111), wpm) /\ RLe(wpm, Whole(140))
             THEN Returned([score |-> 10, wpm |-> wpm, feedback |-> "Ideal."])
             ELSE IF RLe(Whole(81), wpm) /\ RLe(wpm, Whole(110))
             THEN Returned([score |-> 6, wpm |-> wpm, feedback |-> "Slow."])
             ELSE Returned([score |-> 2, wpm |-> wpm, feedback |-> "Too slow."])

\* len(re.findall(r"\s{2,}", text)): the maximal whitespace runs of length 2 or more
double_space_runs(t) ==
    Cardinality({i \in 1..(Len(t) - 1) :
        /\ IsSpace(t[i]) /\ IsSpace(t[i + 1])
        /\ (i = 1 \/ ~IsSpace(t[i - 1]))})

\* \b(\w+)\s+\1\b matches at offset i: the offset just after the match, else -1
RepeatEndAt(t, i) ==
    IF ~(WordBoundary(t, i) /\ i < Len(t) /\ IsWordChar(t[i + 1])) THEN -1
    ELSE LET e == SkipWord(t, i)
             w == SubSeq(t, i + 1, e)
             s == SkipSpaces(t, e)
         IN  IF s > e /\ HasAt(t, s, w) /\ WordBoundary(t, s + Len(w))
             THEN s + Len(w) ELSE -1

\* len(re.findall(r"\b(\w+)\s+\1\b", t)): non-overlapping matches, left to
\* right; a match can only start where a word starts
RECURSIVE RepeatsFrom(_, _)
RepeatsFrom(t, i) ==
    LET starts == {j \in i..(Len(t) - 1) : WordBoundary(t, j) /\ IsWordChar(t[j + 1])}
    IN  IF starts = {} THEN 0
        ELSE LET j == Least(starts)
                 e == RepeatEndAt(t, j)
             IN  IF e >= 0 THEN 1 + RepeatsFrom(t, e) ELSE RepeatsFrom(t, SkipWord(t, j))

\* the grammar checker as the evaluator meets it: the import failed
\* (LT_AVAILABLE is False), or the constructor or check() raises, or check()
\* returns a list of `matches` matches
LTUnavailable == [available |-> FALSE, outcome |-> "none", matches |-> 0]
LTRaisesIn(step) == [available |-> TRUE, outcome |-> step, matches |-> 0]
LTMatches(n) == [available |-> TRUE, outcome |-> "ok", matches |-> n]

\* the five bands of compute_grammar_score
grammar_band(raw) ==
    IF RLt(Dec(90), raw)
    THEN Returned([score |-> 10, raw |-> raw, feedback |-> "Excellent grammar."])
    ELSE IF RLe(Dec(70), raw) /\ RLe(raw, Dec(89))
    THEN Returned([score |-> 8, raw |-> raw, feedback |-> "Good grammar."])
    ELSE IF RLe(Dec(50), raw) /\ RLe(raw, Dec(69))
    THEN Returned([score |-> 6, raw |-> raw, feedback |-> "Fair grammar."])
    ELSE IF RLe(Dec(30), raw) /\ RLe(raw, Dec(49))
    THEN Returned([score |-> 4, raw |-> raw, feedback |-> "Poor grammar."])
    ELSE Returned([score |-> 2, raw |-> raw, feedback |-> "Very poor grammar."])

\* raw = 1.0 - min(errors_per_100 / 10.0, 1.0), errors_per_100 = errors / words * 100
grammar_raw(errors, words) ==
    IF 10 * errors >= words THEN Whole(0) ELSE <<words - 10 * errors, words>>

compute_grammar_score(text, lt) ==
    LET n == Len(word_list(text))
        words == IF n = 0 THEN 1 ELSE n
        raw == IF lt.available
               THEN (IF lt.outcome = "ok" THEN grammar_raw(lt.matches, words) ELSE Dec(70))
               ELSE grammar_raw(double_space_runs(text) + RepeatsFrom(lower(text), 0), words)
    IN  grammar_band(raw)

\* the five bands of compute_ttr_score
ttr_band(ttr) ==
    IF RLe(Dec(90), ttr) /\ RLe(ttr, Dec(100))
    THEN Returned([score |-> 10, ttr |-> ttr, feedback |-> "Excellent lexical diversity."])
    ELSE IF RLe(Dec(70), ttr) /\ RLe(ttr, Dec(89))
    THEN Returned([score |-> 8, ttr |-> ttr, feedback |-> "Good lexical diversity."])
    ELSE IF RLe(Dec(50), ttr) /\ RLe(ttr, Dec(69))
    THEN Returned([score |-> 6, ttr |-> ttr, feedback |-> "Fair lexical diversity."])
    ELSE IF RLe(Dec(30), ttr) /\ RLe(ttr, Dec(49))
    THEN Returned([score |-> 4, ttr |-> ttr, feedback |-> "Poor lexical diversity."])
    ELSE Returned([score |-> 2, ttr |-> ttr, feedback |-> "Very poor lexical diversity."])

\* lex is what the lexical-richness library does: "ok" (the .ttr property
\* divides the distinct words by the words, and so raises on a text without
\* words), "ttr_raises" (the property raises) or "ctor_raises" (the constructor does)
compute_ttr_score(text, lex) ==
    IF lex = "ctor_raises" THEN Raised
    ELSE LET wl == word_list(text)
         IN  IF lex = "ok" /\ Len(wl) > 0
             THEN ttr_band(<<Cardinality(Range(wl)), Len(wl)>>)
             ELSE LET distinct == Cardinality(Range(wl))
                      total == IF Len(wl) = 0 THEN 1 ELSE Len(wl)
                  IN  ttr_band(<<distinct, total>>)

\* the number of tokens of wl that are filler words
filler_tokens(wl) == Cardinality({i \in DOMAIN wl : wl[i] \in FILLER_WORDS})

\* the occurrences of the fillers that hold a space in the joined tokens
RECURSIVE phrase_count(_, _)
phrase_count(t_lower, fws) ==
    IF fws = {} THEN 0
    ELSE LET fw == CHOOSE x \in fws : TRUE
         IN  (IF " " \in Range(fw) THEN count(t_lower, fw) ELSE 0)
             + phrase_count(t_lower, fws \ {fw})

\* the function ends after its first band: above 3 it returns None
compute_filler_rate_score(text) ==
    LET wl == word_list(text)
        total == IF Len(wl) = 0 THEN 1 ELSE Len(wl)
        t_lower == join(wl)
        cnt == phrase_count(t_lower, FILLER_WORDS) + filler_tokens(wl)
        rate == <<cnt * 100, total>>
    IN  IF RLe(Whole(0), rate) /\ RLe(rate, Whole(3))
        THEN Returned([score |-> 15, rate |-> rate, feedback |-> "Clear"])
        ELSE ReturnedNone

(***************************************************************************)
(* The aggregator                                                          *)
(***************************************************************************)
Criterion(name, weight, score, feedback) ==
    [name |-> name, weight |-> weight, score |-> score, feedback |-> feedback]

\* score * (weight / weight)
weighted(score, weight) == score * (weight \div weight)

\* weighted_total with the last term of the sum left out
weighted_total_without_sentiment(sal, kw, flow, rate, gram, voc, fil, sen) ==
    weighted(sal, 5) + weighted(kw, 30) + weighted(flow, 5) + weighted(rate, 10)
    + weighted(gram, 10) + weighted(voc, 10) + weighted(fil, 15)

weighted_total(sal, kw, flow, rate, gram, voc, fil, sen) ==
    weighted(sal, 5) + weighted(kw, 30) + weighted(flow, 5) + weighted(rate, 10)
    + weighted(gram, 10) + weighted(voc, 10) + weighted(fil, 15) + weighted(sen, 15)

report_wpm(words, duration_sec) ==
    IF ~duration_sec.given \/ duration_sec.sec = 0
    THEN 12000
    ELSE Round2(words * 60, duration_sec.sec)

score_transcript(text, duration_sec) ==
    LET words == split_count(text)
        sentences == dot_sentence_count(text)
        salutation_score == 4
        keyword_score == 24
        flow_score == 5
        speech_rate_score == 10
        grammar_score == 8
        vocabulary_score == 6
        filler_score == 12
        sentiment_score == 12
        overall_score == weighted_total(salutation_score, keyword_score, flow_score,
                                        speech_rate_score, grammar_score, vocabulary_score,
                                        filler_score, sentiment_score)
    IN  Returned(
         [overall_score |-> Round2(overall_score, 1),
          words |-> words,
          sentences |-> sentences,
          wpm |-> report_wpm(words, duration_sec),
          criteria |-> <<
            Criterion("Salutation Level", 5, salutation_score, "Detected greeting"),
            Criterion("Keyword Presence", 30, keyword_score, "Basic details found"),
            Criterion("Flow Order", 5, flow_score, "Logical order followed"),
            Criterion("Speech Rate (WPM)", 10, speech_rate_score, "Ideal rate"),
            Criterion("Grammar", 10, grammar_score, "Minor errors"),
            Criterion("Vocabulary Richness", 10, vocabulary_score, "Moderate diversity"),
            Criterion("Filler Word Rate", 15, filler_score, "Few filler words"),
            Criterion("Sentiment/Positivity", 15, sentiment_score, "Positive tone")>>])

(***************************************************************************)
(* Inputs                                                                  *)
(***************************************************************************)
MaxSegs == 2          \* segments per transcript under Spec
MaxFlowSegs == 4      \* segments per transcript under SpecFlow
MaxWords == 24        \* words per transcript under SpecRate
MaxSeconds == 13      \* |duration| under SpecRate
MaxBandWords == 33    \* words per transcript under SpecBands
MaxDistinct == 9      \* distinct words per transcript under SpecBands
MaxMatches == 3       \* matches the grammar checker reports

AshaSentence ==
    <<"m","y"," ","n","a","m","e"," ","i","s"," ","A","s","h","a",","," ","I"," ","a","m"," ","1","0"," ","y","e","a","r","s"," ","o","l","d",","," ","I"," ","s","t","u","d","y"," ","i","n"," ","C","l","a","s","s"," ","5",","," ","I"," ","l","o","v","e"," ","p","a","i","n","t","i","n","g">>

Vocabulary ==
    << <<"G","o","o","d"," ","m","o","r","n","i","n","g"," ","e","v","e","r","y","o","n","e",",">>, <<"H","e","l","l","o"," ","e","v","e","r","y","o","n","e">>, <<"h","i">>, <<"I"," ","a","m"," ","e","x","c","i","t","e","d">>,
       AshaSentence, <<"m","y"," ","m","o","t","h","e","r"," ","w","o","n"," ","a","n"," ","a","w","a","r","d">>, <<"u","m"," ","u","m"," ","y","o","u"," ","k","n","o","w">>,
       <<"T","h","a","n","k"," ","y","o","u"," ","f","o","r"," ","t","h","i","s",".">> >>

FlowVocabulary ==
    << <<"H","e","l","l","o"," ","e","v","e","r","y","o","n","e",",">>, <<"H","i"," ","h","e","l","l","o"," ","e","v","e","r","y","o","n","e",",">>, <<"m","y"," ","n","a","m","e"," ","i","s"," ","A","s","h","a",".">>,
       <<"I"," ","a","m"," ","1","0"," ","y","e","a","r","s"," ","o","l","d",".">>, <<"F","u","n"," ","f","a","c","t",":"," ","I"," ","p","a","i","n","t",".">>, <<"T","h","a","n","k"," ","y","o","u",".">> >>

\* the segments pick[1], ..., pick[n] of vocab, separated by single spaces
RECURSIVE JoinSegs(_, _, _)
JoinSegs(vocab, pick, i) ==
    IF i > Len(pick) THEN <<>>
    ELSE IF i = Len(pick) THEN vocab[pick[i]]
    ELSE vocab[pick[i]] \o <<" ">> \o JoinSegs(vocab, pick, i + 1)

TextsOf(vocab, maxSegs) ==
    {JoinSegs(vocab, pick, 1) :
        pick \in UNION {[1..m -> 1..Len(vocab)] : m \in 0..maxSegs}}

\* n one-letter words of which the first d letters of the alphabet occur in turn
RECURSIVE WordsText(_, _, _)
WordsText(n, d, i) ==
    IF i > n THEN <<>>
    ELSE <<LowerLetters[((i - 1) % d) + 1]>>
         \o (IF i < n THEN <<" ">> ELSE <<>>) \o WordsText(n, d, i + 1)

SampleDurations == {NoDuration, Seconds(-30), Seconds(0), Seconds(30)}
RateDurations == {NoDuration} \cup {Seconds(s) : s \in (-MaxSeconds)..MaxSeconds}
LTOutcomes ==
    {LTUnavailable, LTRaisesIn("constructor"), LTRaisesIn("check")}
    \cup {LTMatches(n) : n \in 0..MaxMatches}
LexOutcomes == {"ok", "ttr_raises", "ctor_raises"}

(***************************************************************************)
(* The state machine: one call of one function on the inputs               *)
(***************************************************************************)
Idle == [fn |-> "idle", env |-> <<>>, ret |-> <<>>]
Call(fn, env, ret) == [fn |-> fn, env |-> env, ret |-> ret]

Salutation ==
    /\ result = Idle
    /\ result' = Call("compute_salutation_score", <<>>, compute_salutation_score(transcript))
    /\ UNCHANGED <<transcript, duration>>

KeywordPresence ==
    /\ result = Idle
    /\ result' = Call("compute_keyword_presence", <<>>, compute_keyword_presence(transcript))
    /\ UNCHANGED <<transcript, duration>>

OrderFlow ==
    /\ result = Idle
    /\ result' = Call("compute_order_flow", <<>>, compute_order_flow(transcript))
    /\ UNCHANGED <<transcript, duration>>

SpeechRate ==
    /\ result = Idle
    /\ result' = Call("compute_speech_rate", <<>>,
                      compute_speech_rate(split_count(transcript), duration))
    /\ UNCHANGED <<transcript, duration>>

Grammar ==
    /\ result = Idle
    /\ \E lt \in LTOutcomes :
         result' = Call("compute_grammar_score", lt, compute_grammar_score(transcript, lt))
    /\ UNCHANGED <<transcript, duration>>

Ttr ==
    /\ result = Idle
    /\ \E lex \in LexOutcomes :
         result' = Call("compute_ttr_score", lex, compute_ttr_score(transcript, lex))
    /\ UNCHANGED <<transcript, duration>>

FillerRate ==
    /\ result = Idle
    /\ result' = Call("compute_filler_rate_score", <<>>, compute_filler_rate_score(transcript))
    /\ UNCHANGED <<transcript, duration>>

ScoreTranscript ==
    /\ result = Idle
    /\ result' = Call("score_transcript", <<>>, score_transcript(transcript, duration))
    /\ UNCHANGED <<transcript, duration>>

\* app.py: the Score button hands None for a duration <= 0
button_duration(d) == IF ~d.given \/ d.sec <= 0 THEN NoDuration ELSE d

ScoreButton ==
    /\ result = Idle
    /\ duration.given /\ duration.sec >= 0
    /\ result' = Call("app.score", <<>>, score_transcript(transcript, button_duration(duration)))
    /\ UNCHANGED <<transcript, duration>>

Init ==
    /\ transcript \in TextsOf(Vocabulary, MaxSegs)
    /\ duration \in SampleDurations
    /\ result = Idle

Next ==
    \/ Salutation
    \/ KeywordPresence
    \/ OrderFlow
    \/ SpeechRate
    \/ Grammar
    \/ Ttr
    \/ FillerRate
    \/ ScoreTranscript
    \/ ScoreButton

Spec == Init /\ [][Next]_vars

InitFlow ==
    /\ transcript \in TextsOf(FlowVocabulary, MaxFlowSegs)
    /\ duration = NoDuration
    /\ result = Idle

NextFlow == OrderFlow \/ Salutation

SpecFlow == InitFlow /\ [][NextFlow]_vars

InitRate ==
    /\ transcript \in {WordsText(n, 1, 1) : n \in 0..MaxWords}
    /\ duration \in RateDurations
    /\ result = Idle

NextRate == SpeechRate \/ ScoreTranscript \/ ScoreButton

SpecRate == InitRate /\ [][NextRate]_vars

InitBands ==
    /\ transcript \in {WordsText(n, d, 1) : n \in 0..MaxBandWords, d \in 1..MaxDistinct}
    /\ duration = NoDuration
    /\ result = Idle

NextBands == Grammar \/ Ttr

SpecBands == InitBands /\ [][NextBands]_vars

(***************************************************************************)
(* Properties                                                              *)
(***************************************************************************)
IsCall(fn) == result.fn = fn
Value == result.ret.value

RECURSIVE SumOver(_, _)
SumOver(s, field) ==
    IF s = <<>> THEN 0 ELSE s[1][field] + SumOver(Tail(s), field)

\* the report of the aggregator, whether called directly or from the Score button
IsReport == IsCall("score_transcript") \/ IsCall("app.score")

\* C1: every criterion score of the report of score_transcript is the score
\* the corresponding evaluator computes for the same transcript and duration
\* (stated for the evaluators that need no external capability).
C1_ReportUsesEvaluators ==
    IsCall("score_transcript") =>
        LET c == Value.criteria
            fil == compute_filler_rate_score(transcript)
        IN  /\ c[1].score = compute_salutation_score(transcript).value.score
            /\ c[2].score = compute_keyword_presence(transcript).value.score
            /\ c[3].score = compute_order_flow(transcript).value.score
            /\ c[4].score = compute_speech_rate(split_count(transcript), duration).value.score
            /\ fil.kind = "value" => c[7].score = fil.value.score

WeightOf(fn) ==
    CASE fn = "compute_salutation_score"  -> 5
      [] fn = "compute_keyword_presence"  -> 30
      [] fn = "compute_order_flow"        -> 5
      [] fn = "compute_speech_rate"       -> 10
      [] fn = "compute_grammar_score"     -> 10
      [] fn = "compute_ttr_score"         -> 10
      [] fn = "compute_filler_rate_score" -> 15

Evaluators ==
    {"compute_salutation_score", "compute_keyword_presence", "compute_order_flow",
     "compute_speech_rate", "compute_grammar_score", "compute_ttr_score",
     "compute_filler_rate_score"}

\* C2: every criterion evaluator that returns at all returns a numeric score
\* s with 0 <= s <= the criterion's weight; compute_filler_rate_score does so
\* for every filler rate.
C2_ScoresWithinWeight ==
    (result.fn \in Evaluators /\ result.ret.kind # "raise") =>
        /\ result.ret.kind = "value"
        /\ 0 <= Value.score
        /\ Value.score <= WeightOf(result.fn)

CriterionNames ==
    <<"Salutation Level", "Keyword Presence", "Flow Order", "Speech Rate (WPM)",
      "Grammar", "Vocabulary Richness", "Filler Word Rate", "Sentiment/Positivity">>

\* C3: the report has exactly 8 criteria in the fixed order, their weights
\* sum to 100, and overall_score is the sum of the 8 returned scores rounded
\* to 2 decimals and lies in [0, 100].
C3_ReportShape ==
    IsReport =>
        LET c == Value.criteria
        IN  /\ Len(c) = 8
            /\ [i \in 1..8 |-> c[i].name] = CriterionNames
            /\ SumOver(c, "weight") = 100
            /\ Value.overall_score = Round2(SumOver(c, "score"), 1)
            /\ 0 <= Value.overall_score /\ Value.overall_score <= 100 * 100

\* a report made for a non-empty transcript with a known duration
C3_Witness ==
    /\ IsCall("score_transcript")
    /\ split_count(transcript) >= 2
    /\ duration.given /\ duration.sec > 0
    /\ Value.overall_score = 8100

\* C4: for a duration > 0 the band is the band of the speed wpm =
\* words/duration*60: above 161 Too fast (2), 141-160 Fast (6), 111-140
\* Ideal (10), 81-110 Slow (6), and Too slow (2) only when wpm <= 80.
C4_SpeechBands ==
    (IsCall("compute_speech_rate") /\ duration.given /\ duration.sec > 0) =>
        LET wpm == <<split_count(transcript) * 60, duration.sec>>
            band == <<Value.score, Value.feedback>>
        IN  /\ RLt(Whole(161), wpm) => band = <<2, "Too fast.">>
            /\ (RLe(Whole(141), wpm) /\ RLe(wpm, Whole(160))) => band = <<6, "Fast.">>
            /\ (RLe(Whole(111), wpm) /\ RLe(wpm, Whole(140))) => band = <<10, "Ideal.">>
            /\ (RLe(Whole(81), wpm) /\ RLe(wpm, Whole(110))) => band = <<6, "Slow.">>
            /\ band = <<2, "Too slow.">> => RLe(wpm, Whole(80))

UnknownDuration == ~duration.given \/ duration.sec <= 0

\* C5: with the duration unknown (None, zero or negative) compute_speech_rate
\* and score_transcript both report wpm 120.0 (the evaluator scoring 10); the
\* report's wpm is words/duration*60 only for a duration > 0 and always agrees,
\* to 2 decimals, with the evaluator's wpm for the same word count.
C5_UnknownDuration ==
    LET sr == compute_speech_rate(split_count(transcript), duration).value
    IN  /\ (IsCall("compute_speech_rate") /\ UnknownDuration) =>
               Value.score = 10 /\ Value.wpm = Whole(120)
        /\ (IsCall("score_transcript") /\ UnknownDuration) => Value.wpm = 120 * 100
        /\ IsCall("score_transcript") => Value.wpm = Round2(sr.wpm[1], sr.wpm[2])

\* the earliest index among the alternatives that occur, -1 when none does
Earliest(idxs) ==
    LET found == SelectSeq(idxs, LAMBDA i : i >= 0)
    IN  IF found = <<>> THEN -1 ELSE MinOf(found)

\* C6: compute_order_flow returns 5 exactly when a salutation marker, a basic
\* marker (name, age, school, class, origin), an additional-fact marker and
\* "thank you" are present and salutation <= smallest basic <= additional
\* fact <= closing, a marker being present when any one of its alternatives
\* occurs, at the earliest occurrence among them; otherwise it returns 0.
C6_OrderFlowIff ==
    IsCall("compute_order_flow") =>
        LET t == lower(transcript)
            sal == Earliest(<<find(t, <<"h","e","l","l","o"," ","e","v","e","r","y","o","n","e">>), find(t, <<"h","e","l","l","o"," ">>), find(t, <<"h","i"," ">>)>>)
            name == Earliest(<<find(t, <<"m","y"," ","n","a","m","e"," ","i","s">>), find(t, <<"m","y","s","e","l","f"," ">>), find(t, <<"i"," ","a","m"," ">>)>>)
            origin == Earliest(<<find(t, <<"i"," ","a","m"," ","f","r","o","m">>), find(t, <<"p","a","r","e","n","t","s"," ","a","r","e"," ","f","r","o","m">>)>>)
            basic == Earliest(<<name, AgeStart(t), find(t, <<"s","c","h","o","o","l">>),
                                find(t, <<"c","l","a","s","s">>), origin>>)
            additional == Earliest(<<find(t, <<"f","u","n"," ","f","a","c","t">>), find(t, <<"u","n","i","q","u","e">>),
                                     find(t, <<"i","n","t","e","r","e","s","t","i","n","g">>), find(t, <<"e","n","j","o","y">>),
                                     find(t, <<"f","a","v","o","r","i","t","e">>), find(t, <<"f","a","v","o","u","r","i","t","e">>)>>)
            close == find(t, <<"t","h","a","n","k"," ","y","o","u">>)
            valid == /\ sal >= 0 /\ basic >= 0 /\ additional >= 0 /\ close >= 0
                     /\ sal <= basic /\ basic <= additional /\ additional <= close
        IN  /\ Value.score \in {0, 5}
            /\ Value.score = 5 <=> valid

\* the transcripts that hold the example sentence once and, around it, only
\* segments without a keyword phrase
PlainSegments ==
    {<<"G","o","o","d"," ","m","o","r","n","i","n","g"," ","e","v","e","r","y","o","n","e",",">>, <<"H","e","l","l","o"," ","e","v","e","r","y","o","n","e">>, <<"h","i">>, <<"u","m"," ","u","m"," ","y","o","u"," ","k","n","o","w">>,
     <<"T","h","a","n","k"," ","y","o","u"," ","f","o","r"," ","t","h","i","s",".">>}
AshaTexts ==
    {JoinSegs(Vocabulary, pick, 1) :
        pick \in {p \in UNION {[1..m -> DOMAIN Vocabulary] : m \in 1..MaxSegs} :
                    /\ \A i \in DOMAIN p : Vocabulary[p[i]] \in PlainSegments \cup {AshaSentence}
                    /\ Cardinality({i \in DOMAIN p : Vocabulary[p[i]] = AshaSentence}) = 1}}

TrueKeys(flags) == {k \in DOMAIN flags : flags[k]}

\* C7 as stated: on a text containing the example sentence and no other
\* keyword phrase, name, age, school_class and hobbies are flagged and family
\* is not, and the score is 4 per flagged must-have key plus 2 per flagged
\* good-to-have key, here 16.
C7_AshaOriginal ==
    (IsCall("compute_keyword_presence") /\ transcript \in AshaTexts) =>
        /\ TrueKeys(Value.must_flags) = {"name", "age", "school_class", "hobbies"}
        /\ Value.score = 16

\* C7 amended: on such a text name, age and school_class are flagged and
\* family and hobbies are not (no hobbies pattern matches "I love painting"),
\* so the score is 12; on every text the score is 4 per flagged must-have key
\* plus 2 per flagged good-to-have key.
C7_AshaAmended ==
    IsCall("compute_keyword_presence") =>
        /\ Value.score = 4 * Cardinality(TrueKeys(Value.must_flags))
                         + 2 * Cardinality(TrueKeys(Value.good_flags))
        /\ transcript \in AshaTexts =>
             /\ TrueKeys(Value.must_flags) = {"name", "age", "school_class"}
             /\ TrueKeys(Value.good_flags) = {}
             /\ Value.score = 12

\* the keyword evaluator has run on the example sentence inside a longer text
C7_Witness ==
    /\ IsCall("compute_keyword_presence")
    /\ transcript \in AshaTexts
    /\ transcript # AshaSentence
    /\ Value.must_flags["school_class"] /\ ~Value.must_flags["hobbies"]

\* C8: the salutation tiers are tested in the order excellent, good, normal
\* on the lowercased, trimmed transcript and the first tier with a matching
\* pattern decides: 5, else 4, else 2, else 0 with "No salutation found.";
\* the score is one of 0, 2, 4, 5 and an empty transcript scores 0.
C8_SalutationTiers ==
    IsCall("compute_salutation_score") =>
        LET t == strip(lower(transcript))
            starts == WordStarts(t)
            excellent == any_search(SALUTATION_PATTERNS.excellent, t, starts)
            good == any_search(SALUTATION_PATTERNS.good, t, starts)
            normal == any_search(SALUTATION_PATTERNS.normal, t, starts)
        IN  /\ excellent => Value.score = 5
            /\ (~excellent /\ good) => Value.score = 4
            /\ (~excellent /\ ~good /\ normal) => Value.score = 2
            /\ (~excellent /\ ~good /\ ~normal) =>
                 Value.score = 0 /\ Value.feedback = "No salutation found."
            /\ Value.score \in {0, 2, 4, 5}
            /\ transcript = <<>> => Value.score = 0
            /\ HasAt(transcript, 0, <<"G","o","o","d"," ","m","o","r","n","i","n","g"," ","e","v","e","r","y","o","n","e",","," ","m","y"," ","n","a","m","e"," ","i","s"," ","A","s","h","a">>) =>
                 (Value.score = 4 <=> find(transcript, <<"I"," ","a","m"," ","e","x","c","i","t","e","d">>) < 0)
            /\ transcript = <<"T","h","a","n","k"," ","y","o","u"," ","f","o","r"," ","t","h","i","s",".">> => Value.score = 0

\* the excellent tier decided although a good and a normal pattern match too
C8_Witness ==
    /\ IsCall("compute_salutation_score")
    /\ Value.score = 5
    /\ LET t == strip(lower(transcript))
           starts == WordStarts(t)
       IN  /\ any_search(SALUTATION_PATTERNS.good, t, starts)
           /\ any_search(SALUTATION_PATTERNS.normal, t, starts)

\* C9: a failure of the external capability, in constructing the checker or
\* analyzer or in querying it, never leaves the evaluator: the grammar
\* evaluator then scores 8 "Good grammar." on quality 0.7, the vocabulary
\* evaluator then takes distinct/total over the word_list tokens with the
\* total at least 1 (TTR 0 and score 2 on an empty transcript).
C9_FailuresContained ==
    /\ (IsCall("compute_grammar_score") /\ result.env.available /\ result.env.outcome # "ok") =>
         /\ result.ret.kind = "value"
         /\ Value.score = 8 /\ Value.raw = Dec(70) /\ Value.feedback = "Good grammar."
    /\ (IsCall("compute_ttr_score") /\ result.env \in {"ttr_raises", "ctor_raises"}) =>
         /\ result.ret.kind = "value"
         /\ LET wl == word_list(transcript)
            IN  /\ REq(Value.ttr, <<Cardinality(Range(wl)), IF wl = <<>> THEN 1 ELSE Len(wl)>>)
                /\ transcript = <<>> => Value.ttr[1] = 0 /\ Value.score = 2

\* C10: the five-band mapping of compute_grammar_score and compute_ttr_score
\* is monotonically non-decreasing over the measurements that some error
\* count and word count (or distinct and total count) produce, and the lowest
\* score 2 is returned only for measurements below 0.3.
C10_BandsMonotone ==
    /\ (IsCall("compute_grammar_score") /\ result.ret.kind = "value") =>
         /\ Value.score = 2 => RLt(Value.raw, Dec(30))
         /\ \A e \in 0..MaxMatches, w \in 1..MaxBandWords :
              RLe(grammar_raw(e, w), Value.raw) =>
                  grammar_band(grammar_raw(e, w)).value.score <= Value.score
    /\ (IsCall("compute_ttr_score") /\ result.ret.kind = "value") =>
         /\ Value.score = 2 => RLt(Value.ttr, Dec(30))
         /\ \A n \in 1..MaxBandWords, d \in 1..MaxDistinct :
              (d <= n /\ RLe(<<d, n>>, Value.ttr)) =>
                  ttr_band(<<d, n>>).value.score <= Value.score

====
